---- MODULE Spec2Model ----
(***************************************************************************)
(* Grreat: configuration validation (src/src/main.py) and the relational   *)
(* data model of population maps (src/src/model.py).                       *)
(*                                                                         *)
(* Five state machines share the variables below:                         *)
(*   Spec       one run of GrreatConfig: argparse parsing of the command   *)
(*              line followed by GrreatConfig.process_args;                *)
(*   SpecStore  the same run with the map store of the design document in  *)
(*              place of the stub body of load_population_map;             *)
(*   SpecMain   one run of main(): GrreatConfigModel built from a parsed   *)
(*              (world_width, world_height) pair;                          *)
(*   SpecDb     rows inserted into the FactionTotal and                    *)
(*              PopulationMapCellFactionCount tables;                      *)
(*   SpecDist   PopulationDistribution objects validated.                  *)
(***************************************************************************)
EXTENDS Integers, Sequences, FiniteSets, TLC

VARIABLES
    pc,                   \* position of the run
    argv,                 \* command line: per option <<>> (omitted) or <<token>>
    files,                \* what each path of the file system holds
    world_width,          \* GrreatConfig.world_width
    world_height,         \* GrreatConfig.world_height
    precinct_population,  \* GrreatConfig.precinct_population
    load_pop_map,         \* GrreatConfig.load_pop_map: <<>> (None) or <<path>>
    precincts,            \* GrreatConfig.precincts
    load_result,          \* what load_population_map returned to process_args
    stderr,               \* what the run wrote to sys.stderr
    main_in,              \* the (world_width, world_height) pair main() parsed
    main_ret,             \* the value main() returned
    main_errs,            \* the fields named by main()'s error messages
    width_check,          \* one_plus_power_of_two of the parsed world_width
    height_check,         \* one_plus_power_of_two of the parsed world_height
    model,                \* the outcome of GrreatConfigModel(...)
    faction_total,        \* rows of table FactionTotal
    cell_faction_count,   \* rows of table PopulationMapCellFactionCount
    distribution,         \* the last PopulationDistribution validated
    db_error              \* outcome of the last database operation

vars == <<pc, argv, files, world_width, world_height, precinct_population,
          load_pop_map, precincts, load_result, stderr, main_in, main_ret,
          main_errs, width_check, height_check, model, faction_total,
          cell_faction_count, distribution, db_error>>

configVars == <<argv, files, world_width, world_height, precinct_population,
                load_pop_map, precincts, load_result, stderr>>
mainVars == <<main_in, main_ret, main_errs, width_check, height_check, model>>
dbVars == <<faction_total, cell_faction_count, distribution, db_error>>

----------------------------------------------------------------------------
(* Bounds of the model *)

\* dimensions and counts tried range over -MaxNeg .. MaxDim
MaxDim == 17
MaxNeg == 1
\* precinct populations tried on the command line range over 0 .. MaxPop
MaxPop == 2
\* faction ids are 0 .. MaxId
MaxId == 1
\* at most MaxRows rows are inserted into the tables
MaxRows == 3
\* distribution ids tried range over 0 .. MaxDistId
MaxDistId == 9

Dims == (0 - MaxNeg) .. MaxDim

----------------------------------------------------------------------------
(* The mathematical rule the validators are compared against *)

RECURSIVE Pow2(_)
Pow2(k) == IF k = 0 THEN 1 ELSE 2 * Pow2(k - 1)

\* v = 2^k + 1 for some k >= 1
IsOnePlusPowerOfTwo(v) == \E k \in 1 .. (MaxDim + 2) : v = Pow2(k) + 1

----------------------------------------------------------------------------
(* Python values *)

DigitChars == <<"0", "1", "2", "3", "4", "5", "6", "7", "8", "9">>

IsDigit(c) == \E d \in 1 .. 10 : DigitChars[d] = c
DigitVal(c) == (CHOOSE d \in 1 .. 10 : DigitChars[d] = c) - 1

\* str(n) for n >= 0
RECURSIVE NatStr(_)
NatStr(n) == IF n < 10 THEN <<DigitChars[n + 1]>>
             ELSE NatStr(n \div 10) \o <<DigitChars[(n % 10) + 1]>>

\* str(v) of an int
PyStr(v) == IF v < 0 THEN <<"-">> \o NatStr(0 - v) ELSE NatStr(v)

RECURSIVE DigitsVal(_, _)
DigitsVal(s, acc) == IF s = <<>> THEN acc
                     ELSE DigitsVal(Tail(s), 10 * acc + DigitVal(Head(s)))

AllDigits(s) == Len(s) >= 1 /\ \A i \in 1 .. Len(s) : IsDigit(s[i])

\* int(s) of a string: an optional sign followed by decimal digits, ValueError
\* otherwise
PyInt(s) ==
    IF AllDigits(s) THEN [ok |-> TRUE, value |-> DigitsVal(s, 0), exc |-> ""]
    ELSE IF Len(s) >= 2 /\ Head(s) = "-" /\ AllDigits(Tail(s))
         THEN [ok |-> TRUE, value |-> 0 - DigitsVal(Tail(s), 0), exc |-> ""]
    ELSE IF Len(s) >= 2 /\ Head(s) = "+" /\ AllDigits(Tail(s))
         THEN [ok |-> TRUE, value |-> DigitsVal(Tail(s), 0), exc |-> ""]
    ELSE [ok |-> FALSE, value |-> 0, exc |-> "ValueError"]

\* a & b for a, b >= 0
RECURSIVE BitAnd(_, _)
BitAnd(a, b) == IF a = 0 \/ b = 0 THEN 0
                ELSE 2 * BitAnd(a \div 2, b \div 2) + ((a % 2) * (b % 2))

\* isinstance(exception, cls): ValueError and argparse.ArgumentTypeError are
\* both direct subclasses of Exception, neither of the other
IsInstance(exc, cls) == exc = cls \/ cls = "Exception"

----------------------------------------------------------------------------
(* Validators of main.py *)

Ok(v) == [ok |-> TRUE, value |-> v, exc |-> ""]
Raise(e) == [ok |-> FALSE, value |-> 0, exc |-> e]

\* Variant: the bit test of "a power of two" instead of "one plus a power of
\* two"
one_plus_power_of_two_value_pow2(value) ==
    IF value < 3 THEN Raise("ValueError")
    ELSE IF BitAnd(value, value - 1) # 0 THEN Raise("ValueError")
    ELSE Ok(value)

\* one_plus_power_of_two, after int(s): the range and bit test
one_plus_power_of_two_value(value) ==
    IF value < 3 THEN Raise("ValueError")
    ELSE IF BitAnd(value - 1, value - 2) # 0 THEN Raise("ValueError")
    ELSE Ok(value)

\* one_plus_power_of_two(s) of a string s
one_plus_power_of_two(s) ==
    LET parsed == PyInt(s)
    IN  IF ~parsed.ok THEN Raise("ValueError")
        ELSE one_plus_power_of_two_value(parsed.value)

\* int_at_least(min_value)(s): the ValueError of int(s) is caught and
\* replaced; the ArgumentTypeError raised inside the try is not a ValueError
\* and leaves the function
int_at_least(min_value, s) ==
    LET parsed == PyInt(s)
    IN  IF ~parsed.ok THEN Raise("ArgumentTypeError")
        ELSE IF parsed.value < min_value THEN Raise("ArgumentTypeError")
        ELSE Ok(parsed.value)

----------------------------------------------------------------------------
(* Population map files *)

Paths == {"a.json", "b.json"}

PopulationMap(width, height, pop, rows) ==
    [width |-> width, height |-> height, precinct_population |-> pop,
     precincts |-> rows]

MapValue(m) == [isErr |-> FALSE, msg |-> "", map |-> m]
ErrValue(msg) == [isErr |-> TRUE, msg |-> msg,
                  map |-> PopulationMap(0, 0, 0, <<>>)]

\* load_population_map(path): the body of the try builds the placeholder
\* map and touches neither the path nor the file system, so nothing is
\* raised and the except clause is never entered
load_population_map(path) == MapValue(PopulationMap(0, 0, 0, <<>>))

\* What a path may hold: nothing, a well-formed map, a map whose geometry is
\* not valid
NoFile == [exists |-> FALSE, map |-> PopulationMap(0, 0, 0, <<>>)]
GoodFile == [exists |-> TRUE,
             map |-> PopulationMap(3, 5, 2, <<<<1, 2, 0>>, <<2, 0, 1>>,
                                   <<1, 1, 1>>, <<0, 2, 2>>, <<2, 1, 0>>>>)]
BadFile == [exists |-> TRUE, map |-> PopulationMap(4, 3, 1, <<>>)]
FileContents == {NoFile, GoodFile, BadFile}

WellFormed(f) == /\ f.exists
                 /\ IsOnePlusPowerOfTwo(f.map.width)
                 /\ IsOnePlusPowerOfTwo(f.map.height)
                 /\ f.map.precinct_population >= 1

\* Map Store load(handle) of the design document
load_store(path) ==
    IF ~files[path].exists THEN ErrValue("MapNotFound")
    ELSE IF ~WellFormed(files[path]) THEN ErrValue("CorruptMap")
    ELSE MapValue(files[path].map)

----------------------------------------------------------------------------
(* GrreatConfig: the command line and process_args *)

DimTokens == {PyStr(v) : v \in Dims} \cup {<<"x">>}
PopTokens == {PyStr(v) : v \in 0 .. MaxPop} \cup {<<"x">>}
Opt(S) == {<<>>} \cup {<<t>> : t \in S}

NoPrecincts == [isNone |-> TRUE, rows |-> <<>>]
SomePrecincts(rows) == [isNone |-> FALSE, rows |-> rows]
NoLoad == [called |-> FALSE, path |-> "", result |-> ErrValue("")]

\* argparse: the type function is applied to the string of an option that
\* is given; a default that is not a string is taken as it is
ArgWidth(opt) == IF opt = <<>> THEN Ok(0) ELSE one_plus_power_of_two(opt[1])
ArgPopulation(opt) == IF opt = <<>> THEN Ok(1000) ELSE int_at_least(1, opt[1])

\* the except clause of the generate path
generate_except(exc, cfg) ==
    IF IsInstance(exc, "ArgumentTypeError")
    THEN [pc |-> "exit1", cfg |-> cfg, stderr |-> <<"help", "error">>]
    ELSE [pc |-> "raised", cfg |-> cfg, stderr |-> <<"traceback">>]

\* process_args with load_pop_map None
process_args_generate(cfg) ==
    LET w == one_plus_power_of_two(PyStr(cfg.world_width))
    IN  IF ~w.ok THEN generate_except(w.exc, cfg)
        ELSE LET cfg1 == [cfg EXCEPT !.world_width = w.value]
                 h == one_plus_power_of_two(PyStr(cfg1.world_height))
             IN  IF ~h.ok THEN generate_except(h.exc, cfg1)
                 ELSE [pc |-> "returned",
                       cfg |-> [cfg1 EXCEPT !.world_height = h.value],
                       stderr |-> <<>>]

\* Variant: a failed load falls back to the generate path
process_args_load_fallback(cfg, p_map_or_err) ==
    IF p_map_or_err.isErr
    THEN process_args_generate(cfg)
    ELSE [pc |-> "returned",
          cfg |-> [world_width |-> p_map_or_err.map.width,
                   world_height |-> p_map_or_err.map.height,
                   precinct_population |->
                       p_map_or_err.map.precinct_population,
                   precincts |-> SomePrecincts(p_map_or_err.map.precincts)],
          stderr |-> <<>>]

\* process_args with load_pop_map set, from the value load_population_map
\* returned
process_args_load(cfg, p_map_or_err) ==
    IF p_map_or_err.isErr
    THEN [pc |-> "exit1", cfg |-> cfg, stderr |-> <<"help", p_map_or_err.msg>>]
    ELSE [pc |-> "returned",
          cfg |-> [world_width |-> p_map_or_err.map.width,
                   world_height |-> p_map_or_err.map.height,
                   precinct_population |->
                       p_map_or_err.map.precinct_population,
                   precincts |-> SomePrecincts(p_map_or_err.map.precincts)],
          stderr |-> <<>>]

CurrentConfig == [world_width |-> world_width, world_height |-> world_height,
                  precinct_population |-> precinct_population,
                  precincts |-> precincts]

Install(out) ==
    /\ pc' = out.pc
    /\ world_width' = out.cfg.world_width
    /\ world_height' = out.cfg.world_height
    /\ precinct_population' = out.cfg.precinct_population
    /\ precincts' = out.cfg.precincts
    /\ stderr' = out.stderr

\* Tap.parse_args up to the call of process_args
ParseArgs ==
    /\ pc = "start"
    /\ LET w == ArgWidth(argv.world_width)
           h == ArgWidth(argv.world_height)
           p == ArgPopulation(argv.precinct_population)
       IN  IF w.ok /\ h.ok /\ p.ok
           THEN /\ pc' = "parsed"
                /\ world_width' = w.value
                /\ world_height' = h.value
                /\ precinct_population' = p.value
                /\ load_pop_map' = argv.load_pop_map
                /\ stderr' = <<>>
           ELSE /\ pc' = "exit2"
                /\ stderr' = <<"usage", "error">>
                /\ UNCHANGED <<world_width, world_height, precinct_population,
                               load_pop_map>>
    /\ UNCHANGED <<argv, files, precincts, load_result>>
    /\ UNCHANGED <<mainVars, dbVars>>

\* process_args, generate path
ProcessArgsGenerate ==
    /\ pc = "parsed"
    /\ load_pop_map = <<>>
    /\ Install(process_args_generate(CurrentConfig))
    /\ UNCHANGED <<argv, files, load_pop_map, load_result>>
    /\ UNCHANGED <<mainVars, dbVars>>

ProcessArgsLoadWith(p_map_or_err) ==
    /\ load_result' = [called |-> TRUE, path |-> load_pop_map[1],
                       result |-> p_map_or_err]
    /\ Install(process_args_load(CurrentConfig, p_map_or_err))
    /\ UNCHANGED <<argv, files, load_pop_map>>
    /\ UNCHANGED <<mainVars, dbVars>>

\* process_args, load path
ProcessArgsLoad ==
    /\ pc = "parsed"
    /\ load_pop_map # <<>>
    /\ ProcessArgsLoadWith(load_population_map(load_pop_map[1]))

\* process_args, load path, over the map store of the design document
ProcessArgsLoadStore ==
    /\ pc = "parsed"
    /\ load_pop_map # <<>>
    /\ ProcessArgsLoadWith(load_store(load_pop_map[1]))

NoModel == [ok |-> FALSE, world_width |-> 0, world_height |-> 0,
            errors |-> <<>>]

MainIdle == /\ main_in = <<0, 0>>
            /\ main_ret = -1
            /\ main_errs = <<>>
            /\ width_check = Raise("")
            /\ height_check = Raise("")
            /\ model = NoModel

DbIdle == /\ faction_total = {}
          /\ cell_faction_count = {}
          /\ distribution = [validated |-> FALSE, uniform |-> <<>>,
                             checkerboard |-> <<>>, ok |-> FALSE]
          /\ db_error = ""

ConfigIdle == /\ argv = [world_width |-> <<>>, world_height |-> <<>>,
                         precinct_population |-> <<>>, load_pop_map |-> <<>>]
              /\ files = [p \in Paths |-> NoFile]
              /\ world_width = 0
              /\ world_height = 0
              /\ precinct_population = 1000
              /\ load_pop_map = <<>>
              /\ precincts = NoPrecincts
              /\ load_result = NoLoad
              /\ stderr = <<>>

\* Before parse_args the fields hold their argparse defaults
Init ==
    /\ pc = "start"
    /\ argv \in [world_width : Opt(DimTokens), world_height : Opt(DimTokens),
                 precinct_population : Opt(PopTokens),
                 load_pop_map : Opt(Paths)]
    /\ files \in [Paths -> FileContents]
    /\ world_width = 0
    /\ world_height = 0
    /\ precinct_population = 1000
    /\ load_pop_map = <<>>
    /\ precincts = NoPrecincts
    /\ load_result = NoLoad
    /\ stderr = <<>>
    /\ MainIdle
    /\ DbIdle

Next == ParseArgs \/ ProcessArgsGenerate \/ ProcessArgsLoad

Spec == Init /\ [][Next]_vars

NextStore == ParseArgs \/ ProcessArgsGenerate \/ ProcessArgsLoadStore

SpecStore == Init /\ [][NextStore]_vars

----------------------------------------------------------------------------
(* main(): GrreatConfigModel built from the parsed arguments *)

\* Annotated[int, AfterValidator(one_plus_power_of_two), Field(ge=3)]: the
\* validator is handed the int itself (int(value) of an int is that int),
\* then the ge constraint is applied; a ValueError becomes an error of the
\* field
P_WORLD_WIDTH(v) ==
    LET r == one_plus_power_of_two_value(v)
    IN  IF ~r.ok THEN Raise("value_error")
        ELSE IF r.value < 3 THEN Raise("greater_than_equal")
        ELSE Ok(r.value)

\* Variant: the height carries the ge=3 constraint alone
P_WORLD_HEIGHT_ge_only(v) ==
    IF v < 3 THEN Raise("greater_than_equal") ELSE Ok(v)

P_WORLD_HEIGHT(v) ==
    LET r == one_plus_power_of_two_value(v)
    IN  IF ~r.ok THEN Raise("value_error")
        ELSE IF r.value < 3 THEN Raise("greater_than_equal")
        ELSE Ok(r.value)

\* GrreatConfigModel(world_width=w, world_height=h): every field is
\* validated and the ValidationError lists the failing fields in field order
GrreatConfigModel(w, h) ==
    LET fw == P_WORLD_WIDTH(w)
        fh == P_WORLD_HEIGHT(h)
        errors == (IF fw.ok THEN <<>> ELSE <<"world_width">>)
                  \o (IF fh.ok THEN <<>> ELSE <<"world_height">>)
    IN  [ok |-> errors = <<>>, world_width |-> fw.value,
         world_height |-> fh.value, errors |-> errors]

\* main(): 0 after printing the arguments, or 1 after one message per entry
\* of ValidationError.errors()
main(w, h) ==
    LET m == GrreatConfigModel(w, h)
    IN  IF m.ok THEN [ret |-> 0, messages |-> <<>>]
        ELSE [ret |-> 1, messages |-> m.errors]

Main ==
    /\ pc = "main_start"
    /\ pc' = "main_done"
    /\ width_check' = one_plus_power_of_two_value(main_in[1])
    /\ height_check' = one_plus_power_of_two_value(main_in[2])
    /\ model' = GrreatConfigModel(main_in[1], main_in[2])
    /\ main_ret' = main(main_in[1], main_in[2]).ret
    /\ main_errs' = main(main_in[1], main_in[2]).messages
    /\ UNCHANGED main_in
    /\ UNCHANGED <<configVars, dbVars>>

InitMain ==
    /\ pc = "main_start"
    /\ main_in \in Dims \X Dims
    /\ main_ret = -1
    /\ main_errs = <<>>
    /\ width_check = Raise("")
    /\ height_check = Raise("")
    /\ model = NoModel
    /\ ConfigIdle
    /\ DbIdle

NextMain == Main

SpecMain == InitMain /\ [][NextMain]_vars

----------------------------------------------------------------------------
(* model.py: the tables *)

Ids == 0 .. MaxId

\* two sets of totals; one map with two cells
FactionTotalRows == [faction_totals_id : {1, 2}, faction_id : Ids,
                     population : {0, MaxPop}]

CellRows == [x : {0, 1}, y : {0}, population_map_id : {1}, faction_id : Ids,
             count : {0 - MaxNeg, 0, MaxPop}]

\* Variant: population is part of the primary key
FactionTotalKey_with_population(row) ==
    <<row.faction_totals_id, row.faction_id, row.population>>

\* the primary key of FactionTotal
FactionTotalKey(row) == <<row.faction_totals_id, row.faction_id>>

\* the primary key of PopulationMapCellFactionCount
CellFactionCountKey(row) ==
    <<row.x, row.y, row.population_map_id, row.faction_id>>

RowsLeft == Cardinality(faction_total) + Cardinality(cell_faction_count)
                < MaxRows

\* a FactionTotal row is added and committed: the database refuses a second
\* row with the primary key of a stored one
InsertFactionTotal(row) ==
    /\ pc = "db"
    /\ IF \E r \in faction_total : FactionTotalKey(r) = FactionTotalKey(row)
       THEN /\ db_error' = "IntegrityError"
            /\ UNCHANGED faction_total
       ELSE /\ RowsLeft
            /\ db_error' = ""
            /\ faction_total' = faction_total \cup {row}
    /\ UNCHANGED <<pc, cell_faction_count, distribution>>
    /\ UNCHANGED <<configVars, mainVars>>

\* a PopulationMapCellFactionCount row is added and committed; count is any
\* int
InsertCellFactionCount(row) ==
    /\ pc = "db"
    /\ IF \E r \in cell_faction_count :
              CellFactionCountKey(r) = CellFactionCountKey(row)
       THEN /\ db_error' = "IntegrityError"
            /\ UNCHANGED cell_faction_count
       ELSE /\ RowsLeft
            /\ db_error' = ""
            /\ cell_faction_count' = cell_faction_count \cup {row}
    /\ UNCHANGED <<pc, faction_total, distribution>>
    /\ UNCHANGED <<configVars, mainVars>>

\* The tables start empty; precinct_population is a value the configuration
\* admits (at least 1)
InitDb ==
    /\ pc = "db"
    /\ DbIdle
    /\ MainIdle
    /\ argv = [world_width |-> <<>>, world_height |-> <<>>,
               precinct_population |-> <<>>, load_pop_map |-> <<>>]
    /\ files = [p \in Paths |-> NoFile]
    /\ world_width = 3
    /\ world_height = 3
    /\ precinct_population \in 1 .. MaxPop
    /\ load_pop_map = <<>>
    /\ precincts = NoPrecincts
    /\ load_result = NoLoad
    /\ stderr = <<>>

NextDb ==
    \/ \E row \in FactionTotalRows : InsertFactionTotal(row)
    \/ \E row \in CellRows : InsertCellFactionCount(row)

SpecDb == InitDb /\ [][NextDb]_vars

----------------------------------------------------------------------------
(* model.py: PopulationDistribution *)

\* an int | None field: <<>> is None, <<i>> the int i
OptIds == {<<>>} \cup {<<i>> : i \in 0 .. MaxDistId}

\* the truth value of an int | None: None and 0 are false
Truthy(opt) == opt # <<>> /\ opt[1] # 0

\* PopulationDistribution.validate_distribution
validate_distribution(uniform_id, checkerboard_id) ==
    LET num_set_ids == (IF Truthy(uniform_id) THEN 1 ELSE 0)
                       + (IF Truthy(checkerboard_id) THEN 1 ELSE 0)
    IN  IF num_set_ids # 1 THEN Raise("ValueError") ELSE Ok(0)

ValidateDistribution(u, c) ==
    /\ pc = "dist"
    /\ distribution' = [validated |-> TRUE, uniform |-> u, checkerboard |-> c,
                        ok |-> validate_distribution(u, c).ok]
    /\ UNCHANGED <<pc, faction_total, cell_faction_count, db_error>>
    /\ UNCHANGED <<configVars, mainVars>>

InitDist == pc = "dist" /\ DbIdle /\ MainIdle /\ ConfigIdle

NextDist == \E u \in OptIds, c \in OptIds : ValidateDistribution(u, c)

SpecDist == InitDist /\ [][NextDist]_vars

----------------------------------------------------------------------------
(* Properties *)

Ended == pc \in {"returned", "exit1", "exit2", "raised"}
ProcessArgsEnded == pc \in {"returned", "exit1", "raised"}

\* C1: one_plus_power_of_two accepts an integer v, returning v unchanged,
\* exactly when v - 1 is a power of two that is at least 2, and
\* GrreatConfigModel(world_width, world_height) is constructed exactly when
\* both axes are accepted: (5,5) and (9,17) succeed, (4,5), (6,6) and (2,5)
\* fail.
C1_GridGeometryValidation ==
    pc = "main_done" =>
        /\ width_check.ok <=> IsOnePlusPowerOfTwo(main_in[1])
        /\ height_check.ok <=> IsOnePlusPowerOfTwo(main_in[2])
        /\ width_check.ok => width_check.value = main_in[1]
        /\ height_check.ok => height_check.value = main_in[2]
        /\ model.ok <=> (/\ IsOnePlusPowerOfTwo(main_in[1])
                         /\ IsOnePlusPowerOfTwo(main_in[2]))
        /\ model.ok => /\ model.world_width = main_in[1]
                       /\ model.world_height = main_in[2]
        /\ main_in \in {<<5, 5>>, <<9, 17>>} => model.ok
        /\ main_in \in {<<4, 5>>, <<6, 6>>, <<2, 5>>} => ~model.ok

C1_Witness ==
    /\ pc = "main_done"
    /\ main_in = <<9, 17>>
    /\ model.ok
    /\ width_check = Ok(9)
    /\ height_check = Ok(17)

\* C2: validate_distribution succeeds exactly when exactly one of
\* uniform_rect_distribution_id and checkerboard_rect_distribution_id is not
\* None, for every id value, 0 included.
C2_ExactlyOnePopulated ==
    distribution.validated =>
        (distribution.ok <=>
            ((distribution.uniform # <<>>)
                 # (distribution.checkerboard # <<>>)))

\* C3: whenever process_args returns normally, on the generate path and on
\* the load path alike, world_width and world_height are one plus a power of
\* two (at least 3) and precinct_population is at least 1.
C3_LoadIsNoBypass ==
    pc = "returned" =>
        /\ IsOnePlusPowerOfTwo(world_width)
        /\ IsOnePlusPowerOfTwo(world_height)
        /\ precinct_population >= 1

RECURSIVE SumCounts(_)
SumCounts(rows) ==
    IF rows = {} THEN 0
    ELSE LET r == CHOOSE r \in rows : TRUE
         IN  r.count + SumCounts(rows \ {r})

CellOf(r) == <<r.x, r.y, r.population_map_id>>

C6_LoadFailsForInvalidHandle ==
    load_result.called =>
        (load_result.result.isErr <=> ~WellFormed(files[load_result.path]))

\* C7: with load_pop_map given, whatever the command line says for
\* world_width, world_height and precinct_population (valid, invalid or
\* omitted), the run is not stopped by their validation and process_args
\* leaves exactly the loaded map's values in the configuration.
C7_ReloadIgnoresGenerationParameters ==
    (argv.load_pop_map # <<>> /\ Ended) =>
        /\ pc # "exit2"
        /\ pc = "returned" =>
               /\ world_width = load_result.result.map.width
               /\ world_height = load_result.result.map.height
               /\ precinct_population
                      = load_result.result.map.precinct_population
               /\ precincts = SomePrecincts(load_result.result.map.precincts)

\* C8: no two FactionTotal rows share (faction_totals_id, faction_id) and no
\* two PopulationMapCellFactionCount rows share
\* (x, y, population_map_id, faction_id).
C8_AtMostOneEntryPerFaction ==
    /\ \A r1, r2 \in faction_total :
           (/\ r1.faction_totals_id = r2.faction_totals_id
            /\ r1.faction_id = r2.faction_id) => r1 = r2
    /\ \A c1, c2 \in cell_faction_count :
           (/\ c1.x = c2.x
            /\ c1.y = c2.y
            /\ c1.population_map_id = c2.population_map_id
            /\ c1.faction_id = c2.faction_id) => c1 = c2

C8_Witness ==
    /\ db_error = "IntegrityError"
    /\ Cardinality(faction_total) >= 2
    /\ cell_faction_count # {}

\* C9: on the generate path, when world_width or world_height is not one
\* plus a power of two (the default 0 included), process_args prints the
\* help and the error and exits with status 1; the validator's error never
\* leaves process_args, and process_args never returns with an invalid
\* dimension.
C9_GeneratePathHandlesInvalidDimension ==
    (argv.load_pop_map = <<>> /\ ProcessArgsEnded) =>
        /\ pc # "raised"
        /\ pc = "returned" => /\ IsOnePlusPowerOfTwo(world_width)
                              /\ IsOnePlusPowerOfTwo(world_height)
        /\ ~(/\ IsOnePlusPowerOfTwo(world_width)
             /\ IsOnePlusPowerOfTwo(world_height))
               => (pc = "exit1" /\ stderr = <<"help", "error">>)

FailingFields(w, h) ==
    (IF IsOnePlusPowerOfTwo(w) THEN <<>> ELSE <<"world_width">>)
    \o (IF IsOnePlusPowerOfTwo(h) THEN <<>> ELSE <<"world_height">>)

\* C10: main returns 0 exactly when both parsed values are one plus a power
\* of two; otherwise it returns 1 after one error message per failing field,
\* naming that field, and no validation error leaves main as an exception.
C10_MainReportsFailuresAsValues ==
    pc = "main_done" =>
        /\ main_ret \in {0, 1}
        /\ main_ret = 0 <=> FailingFields(main_in[1], main_in[2]) = <<>>
        /\ main_errs = FailingFields(main_in[1], main_in[2])

C10_Witness ==
    /\ pc = "main_done"
    /\ main_in = <<4, 6>>
    /\ main_ret = 1
    /\ main_errs = <<"world_width", "world_height">>

====
